---- MODULE Spec2Model ----
(***************************************************************************)
(* Filament-Sync: the run of main.js (initData, addToOptions,              *)
(* addToDatabase, sendToPrinter) and the reconciliation of filament        *)
(* presets into the printer's material_database.json and                   *)
(* material_option.json.                                                   *)
(*                                                                         *)
(* JavaScript strings are sequences of UTF-16 code units.  A JSON value is *)
(* a record [arr, t, s]: t is the scalar's type, s its text and arr says   *)
(* that the scalar is wrapped in a one-element array.                      *)
(***************************************************************************)
EXTENDS Integers, Sequences, FiniteSets, TLC

VARIABLES
    files,        \* the preset files of the slicer's custom directory
    profiles,     \* filteredProfiles, what readProfiles() returns
    sshCfg,       \* getPrinterConfig() # null: host and password are set
    printerDb,    \* the printer's live material_database.json
    printerOpt,   \* the printer's live material_option.json
    conns,        \* SSH connections that are open
    obj,          \* addToOptions: the options document being built
    j,            \* addToOptions: index of the next profile
    processed,    \* addToOptions: the counter
    dataOpt,      \* data/material_option.json
    optFrom,      \* where loadBaseOptions took its document from
    dbObj,        \* addToDatabase: the database document being built
    i,            \* addToDatabase: index of the next profile
    added,        \* addToDatabase: the counter
    updated,      \* addToDatabase: the counter
    dataDb,       \* data/material_database.json
    dbFrom,       \* where loadBaseDatabase took its document from
    dbRemote,     \* how loadBaseDatabase's read of the printer ended
    optRemote,    \* how loadBaseOptions' read of the printer ended
    pc,           \* position of the run
    err,          \* the error main.js caught, "none" without one
    now,          \* Date.now() / 1000
    run,          \* number of the run of main.js
    baseOpt,      \* the options document as loaded, before the loop
    baseList,     \* result.list as loaded, before the loop
    firstBase,    \* baseList of the previous run
    firstOut,     \* result.list written by the previous run
    firstProfiles,\* filteredProfiles of the previous run
    dataFiles,    \* the files that exist in data/
    doBackup,     \* FILAMENT_SYNC_BACKUP is neither '0' nor 'false'
    remoteDir,    \* the files of remoteDir on the printer, by name
    tmp,          \* the files <name>.tmp of remoteDir, by name
    nameIx,       \* uploadFiles, backupRemoteFiles: index of the next name
    log,          \* the remote operations of sendToPrinter, in order
    backups,      \* the files saved under backups/<stamp>/
    userDir,      \* resolver: the .json files of user/<USERID>/filament
    systemDir,    \* resolver: the files of system/, by preset name
    baseDir,      \* resolver: the files of filament/base, by file name
    baseDir0,     \* baseDir when the resolver started
    force,        \* resolver: --force was passed
    fileIx,       \* resolver: index of the next file of jsonFiles
    built,        \* resolver: the counter
    skipped,      \* resolver: the counter
    warnings,     \* resolver: the counter
    merges        \* resolver: the layers of each preset it has merged

optVars == <<obj, j, processed, dataOpt, optFrom, optRemote, baseOpt>>
dbVars == <<dbObj, i, added, updated, dataDb, dbFrom, dbRemote, baseList>>
histVars == <<now, run, firstBase, firstOut>>
envVars == <<files, sshCfg, printerDb, printerOpt>>
sendVars == <<doBackup, remoteDir, tmp, nameIx, log, backups>>
fixVars == <<userDir, systemDir, baseDir, baseDir0, force, fileIx, built, skipped,
             warnings, merges>>

\* what the build steps of main.js leave alone
restVars == <<firstProfiles, sendVars, fixVars>>
otherVars == <<dataFiles, restVars>>

vars == <<envVars, profiles, conns, optVars, dbVars, histVars, pc, err,
          firstProfiles, dataFiles, sendVars, fixVars>>

(***************************************************************************)
(* Bounds of the model.                                                    *)
(***************************************************************************)
MaxProfiles == 2
MaxBase == 2
MaxFiles == 2

(***************************************************************************)
(* Strings of the model, as code units.                                    *)
(***************************************************************************)
sEmpty == <<>>
sX == <<88>>
sY == <<89>>
sPLA == <<80, 76, 65>>
sPETG == <<80, 69, 84, 71>>
sNew == <<78, 101, 119>>
sAlt == <<65, 108, 116>>
sTwo == <<84, 119, 111>>
sOld == <<79, 108, 100>>
sRaw == <<82, 97, 119>>
sUser == <<85, 115, 101, 114>>
sOEM == <<79, 69, 77>>
s10001 == <<49, 48, 48, 48, 49>>
s20002 == <<50, 48, 48, 48, 50>>
s40004 == <<52, 48, 48, 48, 52>>
s99999 == <<57, 57, 57, 57, 57>>
sZero == <<48>>
sOne == <<49>>
s215 == <<50, 49, 53>>
sUndefined == <<117, 110, 100, 101, 102, 105, 110, 101, 100>>
sNullWord == <<110, 117, 108, 108>>
sAcme == <<65, 99, 109, 101>>
sTmpl == <<116, 109, 112, 108>>

(***************************************************************************)
(* JSON values.                                                            *)
(***************************************************************************)
Str(s) == [arr |-> FALSE, t |-> "str", s |-> s]
Num(s) == [arr |-> FALSE, t |-> "num", s |-> s]
Null == [arr |-> FALSE, t |-> "null", s |-> sEmpty]
Absent == [arr |-> FALSE, t |-> "absent", s |-> sEmpty]
Arr(v) == [v EXCEPT !.arr = TRUE]

IsNullish(v) == ~v.arr /\ v.t \in {"null", "absent"}

\* String(v)
JsString(v) ==
    IF v.t \in {"str", "num"} THEN v.s
    ELSE IF v.arr THEN sEmpty
    ELSE IF v.t = "null" THEN sNullWord
    ELSE sUndefined

\* the truthiness of v in a condition
Truthy(v) ==
    \/ v.arr
    \/ v.t = "str" /\ v.s # sEmpty
    \/ v.t = "num" /\ v.s # sZero

\* String(n) of a natural number n
RECURSIVE Decimal(_)
Decimal(n) ==
    IF n < 10 THEN <<48 + n>> ELSE Append(Decimal(n \div 10), 48 + (n % 10))

Keys ==
    {"id", "name", "filament_id", "filament_vendor", "filament_type",
     "filament_settings_id", "from", "is_custom_defined", "inherits",
     "nozzle_temperature"}

(***************************************************************************)
(* filament_notes.  The text of the notes is described by its syntactic    *)
(* class (kind) and, for a JSON object, by the members it carries.         *)
(***************************************************************************)
NotesText(kind, id, vendor, type, name) ==
    [kind |-> kind, id |-> id, vendor |-> vendor, type |-> type, name |-> name]

PlainText(kind) == NotesText(kind, Absent, Absent, Absent, Absent)

\* the field filament_notes of a profile: absent, a string, or [string]
NoNotes == [shape |-> "absent", text |-> PlainText("blank")]
NotesArr(text) == [shape |-> "arr", text |-> text]
NotesStr(text) == [shape |-> "str", text |-> text]

\* JSON.stringify({ id, vendor, type, name }) of four strings
JsonStringify(id, vendor, type, name) ==
    NotesText("obj", Str(id), Str(vendor), Str(type), Str(name))

\* JSON.parse(text): the value, or "throws"
JsonParse(text) ==
    CASE text.kind = "obj" ->
            [res |-> "object", id |-> text.id, vendor |-> text.vendor,
             type |-> text.type, name |-> text.name]
      [] text.kind = "null" ->
            [res |-> "null", id |-> Absent, vendor |-> Absent,
             type |-> Absent, name |-> Absent]
      [] text.kind = "scalar" ->
            [res |-> "scalar", id |-> Absent, vendor |-> Absent,
             type |-> Absent, name |-> Absent]
      [] OTHER ->
            [res |-> "throws", id |-> Absent, vendor |-> Absent,
             type |-> Absent, name |-> Absent]

getNotesString(profile) ==
    IF profile.notes.shape \in {"arr", "str"}
    THEN profile.notes.text
    ELSE PlainText("blank")

\* parseNotes: null (res = "null") or the parsed value
parseNotes(profile) ==
    LET raw == getNotesString(profile)
        parsed == JsonParse(raw)
    IN  IF raw.kind \in {"blank", "quotes"} \/ parsed.res = "throws"
        THEN JsonParse(PlainText("null"))
        ELSE parsed

(***************************************************************************)
(* tools/database-tool.js                                                  *)
(***************************************************************************)
unwrapFirst(v) == IF v.arr THEN [v EXCEPT !.arr = FALSE] ELSE v

\* String(unwrapFirst(m?.id) ?? ''), the id findById compares
idOf(m) ==
    LET u == unwrapFirst(m.f["id"])
    IN  IF IsNullish(u) THEN sEmpty ELSE JsString(u)

\* mutants of findById
findByIdLast(list, id) ==
    LET hits == {k \in 1..Len(list) : idOf(list[k]) = id}
    IN  IF hits = {} THEN 0 ELSE CHOOSE k \in hits : \A h \in hits : h <= k

findByIdNever(list, id) == 0

findByIdStrict(list, id) ==
    LET hits == {k \in 1..Len(list) : list[k].f["id"] = Arr(Str(id))}
    IN  IF hits = {} THEN 0 ELSE CHOOSE k \in hits : \A h \in hits : k <= h

findByIdNext(list, id) ==
    LET hits == {k \in 1..Len(list) : idOf(list[k]) = id}
        first == CHOOSE k \in hits : \A h \in hits : k <= h
    IN  IF hits = {} THEN 0
        ELSE IF first < Len(list) THEN first + 1 ELSE first

\* the index of the first entry with this id, 0 for findIndex's -1
findById(list, id) ==
    LET hits == {k \in 1..Len(list) : idOf(list[k]) = id}
    IN  IF hits = {} THEN 0 ELSE CHOOSE k \in hits : \A h \in hits : k <= h

normalizeToArray(v) ==
    IF v.arr \/ IsNullish(v) THEN v ELSE Arr(v)

\* sourcedata/newMaterial.json: a record that has a value for every key
newMaterialTemplate ==
    [f |-> [k \in Keys |-> Arr(Str(sTmpl))], notes |-> NoNotes]

buildMaterialKeepRaw(profile, notesObj) ==
    LET id == JsString(notesObj.id)
        name == JsString(notesObj.name)
        vendor == JsString(notesObj.vendor)
        type == JsString(notesObj.type)
        ident ==
            [k \in Keys |->
                CASE k \in {"id", "filament_id"} -> Arr(Str(id))
                  [] k \in {"name", "filament_settings_id"} -> Arr(Str(name))
                  [] k = "filament_vendor" -> Arr(Str(vendor))
                  [] k = "filament_type" -> Arr(Str(type))
                  [] k = "from" -> Arr(Str(sUser))
                  [] k = "is_custom_defined" -> Arr(Num(sZero))
                  [] OTHER -> newMaterialTemplate.f[k]]
    IN  [f |-> [k \in Keys |->
                   IF profile.f[k].t # "absent"
                   THEN normalizeToArray(profile.f[k])
                   ELSE ident[k]],
         notes |-> NotesArr(JsonStringify(id, vendor, type, name))]

buildMaterialFromProfile(profile, notesObj) ==
    LET id == JsString(notesObj.id)
        name == JsString(notesObj.name)
        vendor == JsString(notesObj.vendor)
        type == JsString(notesObj.type)
        copied ==
            [k \in Keys |->
                IF profile.f[k].t # "absent"
                THEN normalizeToArray(profile.f[k])
                ELSE newMaterialTemplate.f[k]]
    IN  [f |-> [k \in Keys |->
                   CASE k \in {"id", "filament_id"} -> Arr(Str(id))
                     [] k \in {"name", "filament_settings_id"} -> Arr(Str(name))
                     [] k = "filament_vendor" -> Arr(Str(vendor))
                     [] k = "filament_type" -> Arr(Str(type))
                     [] k = "from" -> Arr(Str(sUser))
                     [] k = "is_custom_defined" -> Arr(Num(sZero))
                     [] OTHER -> copied[k]],
         notes |-> NotesArr(JsonStringify(id, vendor, type, name))]

nowEpochSeconds == Decimal(now)

\* a database document: { result: { list, count, version } }
DbDoc(shape, list, count, version) ==
    [shape |-> shape, list |-> list, count |-> count, version |-> version]

\* tools/sourcedata/material_database.json, the snapshot of the repository
FallbackEntry ==
    [f |-> [k \in Keys |->
               CASE k = "id" -> Arr(Str(s10001))
                 [] k = "name" -> Arr(Str(sOEM))
                 [] OTHER -> Absent],
     notes |-> NoNotes]

FallbackDb == DbDoc("doc", <<FallbackEntry>>, 1, sZero)

NoDoc == DbDoc("none", <<>>, 0, sEmpty)

\* how a read of the printer's document can fail
RemoteFailures == {"connect_failed", "read_failed", "parse_failed"}

\* mutant of BuildThrow: the rejection of a build step is not awaited by
\* main.js, which goes on to sendToPrinter
BuildThrowNotAwaited(e) ==
    /\ pc' = "db_done"
    /\ err' = e

\* an error leaves a build step: the catch of main.js ends the run
\* (main.js lines 8-25)
BuildThrow(e) ==
    /\ pc' = "exit1"
    /\ err' = e

\* mutant of DbBegin: getList returns whatever result.list is
DbBeginAnyShape(doc, from, remote) ==
    /\ dbObj' = doc
    /\ dbFrom' = from
    /\ dbRemote' = remote
    /\ baseList' = doc.list
    /\ i' = 1
    /\ added' = 0
    /\ updated' = 0
    /\ pc' = "db_loop"
    /\ UNCHANGED err

\* getList and the start of the loop of addToDatabase, on the loaded document
DbBegin(doc, from, remote) ==
    /\ dbObj' = doc
    /\ dbFrom' = from
    /\ dbRemote' = remote
    /\ baseList' = doc.list
    /\ i' = 1
    /\ added' = 0
    /\ updated' = 0
    /\ IF doc.shape = "doc"
       THEN pc' = "db_loop" /\ UNCHANGED err
       ELSE BuildThrow("db_shape")

\* what loadBaseDatabase returns once readRemoteFile has answered
DbReadEnd(readOk) ==
    IF ~readOk \/ printerDb.state = "missing"
    THEN DbBegin(FallbackDb, "repo", "read_failed")
    ELSE IF printerDb.state = "garbage"
    THEN DbBegin(FallbackDb, "repo", "parse_failed")
    ELSE DbBegin(printerDb.doc, "printer", "ok")

\* addToDatabase up to connectSSH's answer (loadBaseDatabase, lines 71-75)
DbConnect ==
    /\ pc = "opt_done"
    /\ IF sshCfg
       THEN \E ok \in BOOLEAN :
               IF ok
               THEN /\ conns' = conns + 1
                    /\ pc' = "db_read"
                    /\ UNCHANGED <<dbVars, err>>
               ELSE /\ DbBegin(FallbackDb, "repo", "connect_failed")
                    /\ UNCHANGED <<conns, dataDb>>
       ELSE /\ DbBegin(FallbackDb, "repo", "none")
            /\ UNCHANGED <<conns, dataDb>>
    /\ UNCHANGED <<envVars, otherVars, profiles, optVars, histVars>>

\* mutant of DbRead: conn.end() is reached only when read and parse succeed
DbReadNoFinally ==
    /\ pc = "db_read"
    /\ \E readOk \in BOOLEAN :
          /\ conns' = IF readOk /\ printerDb.state = "ok" THEN conns - 1 ELSE conns
          /\ DbReadEnd(readOk)
    /\ UNCHANGED <<envVars, otherVars, profiles, optVars, histVars, dataDb>>

\* readRemoteFile's answer, JSON.parse and conn.end() (lines 77-86)
DbRead ==
    /\ pc = "db_read"
    /\ conns' = conns - 1
    /\ \E readOk \in BOOLEAN : DbReadEnd(readOk)
    /\ UNCHANGED <<envVars, otherVars, profiles, optVars, histVars, dataDb>>

\* one iteration of the loop over the profiles (lines 160-180)
DbApply ==
    /\ pc = "db_loop"
    /\ i <= Len(profiles)
    /\ LET p == profiles[i]
           notesObj == parseNotes(p)
           list == dbObj.list
       IN  IF notesObj.res = "null" \/ ~Truthy(notesObj.id)
           THEN UNCHANGED <<dbObj, added, updated>>
           ELSE LET id == JsString(notesObj.id)
                    idx == findById(list, id)
                    material == buildMaterialFromProfile(p, notesObj)
                IN  IF idx >= 1
                    THEN /\ dbObj' = [dbObj EXCEPT !.list[idx] = material]
                         /\ updated' = updated + 1
                         /\ UNCHANGED added
                    ELSE /\ dbObj' = [dbObj EXCEPT !.list = Append(list, material)]
                         /\ added' = added + 1
                         /\ UNCHANGED updated
    /\ i' = i + 1
    /\ UNCHANGED <<envVars, otherVars, profiles, conns, optVars, histVars, pc, err,
                   dataDb, dbFrom, dbRemote, baseList>>

\* mutant of DbFinish: the count is the starting count plus the additions
DbFinishStartingCount ==
    /\ pc = "db_loop"
    /\ i > Len(profiles)
    /\ LET out == [dbObj EXCEPT !.count = dbObj.count + added,
                                !.version = nowEpochSeconds]
       IN  /\ dbObj' = out
           /\ \E writeOk \in BOOLEAN :
                 IF writeOk
                 THEN /\ dataDb' = out
                      /\ dataFiles' = dataFiles \cup {"material_database.json"}
                      /\ pc' = "db_done"
                      /\ UNCHANGED err
                 ELSE /\ BuildThrow("data_write")
                      /\ UNCHANGED <<dataDb, dataFiles>>
    /\ UNCHANGED <<envVars, restVars, profiles, conns, optVars, histVars,
                   i, added, updated, dbFrom, dbRemote, baseList>>

\* count, version and the write of data/material_database.json (lines
\* 182-191); fs.writeFileSync throws when the file cannot be written
DbFinish ==
    /\ pc = "db_loop"
    /\ i > Len(profiles)
    /\ LET out == [dbObj EXCEPT !.count = Len(dbObj.list),
                                !.version = nowEpochSeconds]
       IN  /\ dbObj' = out
           /\ \E writeOk \in BOOLEAN :
                 IF writeOk
                 THEN /\ dataDb' = out
                      /\ dataFiles' = dataFiles \cup {"material_database.json"}
                      /\ pc' = "db_done"
                      /\ UNCHANGED err
                 ELSE /\ BuildThrow("data_write")
                      /\ UNCHANGED <<dataDb, dataFiles>>
    /\ UNCHANGED <<envVars, restVars, profiles, conns, optVars, histVars,
                   i, added, updated, dbFrom, dbRemote, baseList>>

\* main.js is run a second time with the same presets; the printer may have
\* installed the database of the first run meanwhile
DbRunAgain ==
    /\ pc = "db_done"
    /\ run = 1
    /\ \E installed \in BOOLEAN :
          printerDb' = IF installed
                       THEN [state |-> "ok", doc |-> dataDb]
                       ELSE printerDb
    /\ run' = run + 1
    /\ now' = now + 1
    /\ firstBase' = baseList
    /\ firstOut' = dataDb.list
    /\ pc' = "opt_done"
    /\ UNCHANGED <<files, sshCfg, printerOpt, profiles, conns, optVars, dbVars,
                   err, otherVars>>

(***************************************************************************)
(* tools/config.js                                                         *)
(***************************************************************************)
notesLooksEmpty(notesStr) == notesStr.kind \in {"blank", "quotes"}

safeFirst(v) == IF v.arr THEN [v EXCEPT !.arr = FALSE] ELSE v

\* a ^ b of two non-negative integers
RECURSIVE BitXor(_, _)
BitXor(a, b) ==
    IF a = 0 THEN b
    ELSE IF b = 0 THEN a
    ELSE 2 * BitXor(a \div 2, b \div 2) + ((a + b) % 2)

\* FNV-1a over the code units; the 32-bit h is kept as its two 16-bit halves
RECURSIVE Fnv1a(_, _, _)
Fnv1a(str, k, h) ==
    IF k > Len(str) \/ h.lo >= 65536 THEN h
    ELSE LET lo == BitXor(h.lo, str[k])
             p == lo * 403
         IN  Fnv1a(str, k + 1,
                   [hi |-> (h.hi * 403 + lo * 256 + p \div 65536) % 65536,
                    lo |-> p % 65536])

\* Math.abs(h) % 90000 of the signed 32-bit h
AbsMod90000(h) ==
    LET a == IF h.hi < 32768 THEN h
             ELSE IF h.lo = 0 THEN [hi |-> 65536 - h.hi, lo |-> 0]
             ELSE [hi |-> 65535 - h.hi, lo |-> 65536 - h.lo]
    IN  ((((a.hi * 256) % 90000) * 256) + a.lo) % 90000

\* mutant of stableFiveDigitId: the time of the run is hashed too
stableIdOfRun(str) ==
    Decimal(AbsMod90000(Fnv1a(str \o Decimal(now), 1, [hi |-> 33052, lo |-> 40389]))
            + 10000)

stableFiveDigitId(str) ==
    Decimal(AbsMod90000(Fnv1a(str, 1, [hi |-> 33052, lo |-> 40389])) + 10000)

toLowerCase(str) ==
    [k \in 1..Len(str) |-> IF str[k] \in 65..90 THEN str[k] + 32 ELSE str[k]]

toUpperCase(str) ==
    [k \in 1..Len(str) |-> IF str[k] \in 97..122 THEN str[k] - 32 ELSE str[k]]

sFdmFilament == <<102, 100, 109, 95, 102, 105, 108, 97, 109, 101, 110, 116, 95>>
sCustomFilament ==
    <<67, 117, 115, 116, 111, 109, 32, 70, 105, 108, 97, 109, 101, 110, 116>>
sCustom == <<67, 117, 115, 116, 111, 109>>
sCUSTOM == <<67, 85, 83, 84, 79, 77>>
sFdmPetg ==
    <<102, 100, 109, 95, 102, 105, 108, 97, 109, 101, 110, 116, 95, 112, 101, 116, 103>>

\* mutant of deriveTypeFromInherits: the group is not upper-cased
deriveTypeKeepCase(inherits) ==
    LET s == toLowerCase(IF IsNullish(inherits) THEN sEmpty ELSE JsString(inherits))
        n == Len(sFdmFilament)
        word(c) == c \in 97..122 \/ c \in 48..57 \/ c = 95
        starts == {q \in 1..Len(s) :
                      /\ q + n <= Len(s)
                      /\ SubSeq(s, q, q + n - 1) = sFdmFilament
                      /\ word(s[q + n])}
        q0 == CHOOSE q \in starts : \A r \in starts : q <= r
        ends == {e \in (q0 + n)..Len(s) : \A x \in (q0 + n)..e : word(s[x])}
        e0 == CHOOSE e \in ends : \A r \in ends : r <= e
    IN  IF starts = {} THEN sEmpty ELSE SubSeq(s, q0 + n, e0)

\* s.match(/fdm_filament_([a-z0-9_]+)/): group 1 upper-cased, '' without a match
deriveTypeFromInherits(inherits) ==
    LET s == toLowerCase(IF IsNullish(inherits) THEN sEmpty ELSE JsString(inherits))
        n == Len(sFdmFilament)
        word(c) == c \in 97..122 \/ c \in 48..57 \/ c = 95
        starts == {q \in 1..Len(s) :
                      /\ q + n <= Len(s)
                      /\ SubSeq(s, q, q + n - 1) = sFdmFilament
                      /\ word(s[q + n])}
        q0 == CHOOSE q \in starts : \A r \in starts : q <= r
        ends == {e \in (q0 + n)..Len(s) : \A x \in (q0 + n)..e : word(s[x])}
        e0 == CHOOSE e \in ends : \A r \in ends : r <= e
    IN  IF starts = {} THEN sEmpty ELSE toUpperCase(SubSeq(s, q0 + n, e0))

\* the Notes autoGenerateNotes writes into profile.filament_notes
autoGenerateNotes(profile) ==
    LET first(k) == safeFirst(profile.f[k])
        name == IF Truthy(first("name")) THEN first("name")
                ELSE Str(sCustomFilament)
        vendor == IF Truthy(first("filament_vendor")) THEN first("filament_vendor")
                  ELSE Str(sCustom)
        derived == deriveTypeFromInherits(first("inherits"))
        type == IF Truthy(first("filament_type")) THEN first("filament_type")
                ELSE IF derived # sEmpty THEN Str(derived)
                ELSE Str(sCUSTOM)
        id == stableFiveDigitId(JsString(vendor) \o <<124>> \o JsString(type)
                                    \o <<124>> \o JsString(name))
    IN  [profile EXCEPT !.notes = NotesArr(NotesText("obj", Str(id), vendor, type, name))]

wrapScalarsAsArrays(profile) ==
    [f |-> [k \in Keys |->
               IF profile.f[k].arr \/ IsNullish(profile.f[k])
               THEN profile.f[k]
               ELSE Arr(profile.f[k])],
     notes |-> IF profile.notes.shape = "str"
               THEN NotesArr(profile.notes.text)
               ELSE profile.notes]

hasRequiredNotes(profile) ==
    LET notesStr == getNotesString(profile)
    IN  ~notesLooksEmpty(notesStr) /\ JsonParse(notesStr).res # "throws"

\* filteredProfiles after the loop of filterProfiles over loadedProfiles
RECURSIVE filterProfiles(_)
filterProfiles(loaded) ==
    IF loaded = <<>> THEN <<>>
    ELSE LET p == Head(loaded)
             g == autoGenerateNotes(p)
             rest == filterProfiles(Tail(loaded))
         IN  IF hasRequiredNotes(p) THEN <<p>> \o rest
             ELSE IF hasRequiredNotes(g) THEN <<g>> \o rest
             ELSE rest

\* initData: readProfilesFromDir, checkCrealityFormatting and filterProfiles
InitData ==
    /\ pc = "init"
    /\ \E creality \in BOOLEAN :
          LET parsed == [k \in 1..Len(files) |-> files[k].profile]
              loadedProfiles ==
                  IF creality
                  THEN [k \in 1..Len(files) |-> wrapScalarsAsArrays(parsed[k])]
                  ELSE parsed
          IN  IF \E k \in 1..Len(files) : ~files[k].wellFormed
              THEN /\ profiles' = <<>>
                   /\ pc' = "exit1"
                   /\ err' = "bad_preset_json"
              ELSE IF loadedProfiles = <<>>
              THEN /\ profiles' = <<>>
                   /\ pc' = "exit1"
                   /\ err' = "no_profiles"
              ELSE /\ profiles' = filterProfiles(loadedProfiles)
                   /\ pc' = "opt_start"
                   /\ UNCHANGED err
    /\ UNCHANGED <<envVars, otherVars, conns, optVars, dbVars, histVars>>

(***************************************************************************)
(* tools/options-tool.js                                                   *)
(***************************************************************************)
\* an options document: vendor -> (type -> name), or vendor -> a scalar
OptMap(m) == [kind |-> "map", m |-> m]
OptScalar == [kind |-> "scalar", m |-> <<>>]

\* tools/sourcedata/material_option.json, the snapshot of the repository
FallbackOpt == (sX :> OptMap(sPLA :> Str(sOEM)))

\* mutant of OptSet: the vendor's mapping is made anew
OptSetFresh(o, vendor, type, name) ==
    (vendor :> OptMap(type :> name)) @@ o

\* obj[vendor] = {} when it is no object, then obj[vendor][type] = name
OptSet(o, vendor, type, name) ==
    LET inner == IF vendor \in DOMAIN o /\ o[vendor].kind = "map"
                 THEN o[vendor].m
                 ELSE <<>>
    IN  (vendor :> OptMap((type :> name) @@ inner)) @@ o

\* the start of the loop of addToOptions, on the loaded document
OptBegin(doc, from, remote) ==
    /\ obj' = doc
    /\ optFrom' = from
    /\ optRemote' = remote
    /\ baseOpt' = doc
    /\ j' = 1
    /\ processed' = 0
    /\ pc' = "opt_loop"

\* mutant of OptReadEnd: a failed read is not caught
OptReadEndNoCatch(readOk) ==
    IF ~readOk \/ printerOpt.state = "missing"
    THEN /\ pc' = "exit1"
         /\ err' = "remote"
         /\ optRemote' = "read_failed"
         /\ UNCHANGED <<obj, optFrom, baseOpt, j, processed>>
    ELSE IF printerOpt.state = "garbage"
    THEN OptBegin(FallbackOpt, "repo", "parse_failed") /\ UNCHANGED err
    ELSE OptBegin(printerOpt.doc, "printer", "ok") /\ UNCHANGED err

\* what loadBaseOptions returns once readRemoteFile has answered
OptReadEnd(readOk) ==
    /\ IF ~readOk \/ printerOpt.state = "missing"
       THEN OptBegin(FallbackOpt, "repo", "read_failed")
       ELSE IF printerOpt.state = "garbage"
       THEN OptBegin(FallbackOpt, "repo", "parse_failed")
       ELSE OptBegin(printerOpt.doc, "printer", "ok")
    /\ UNCHANGED err

\* addToOptions up to connectSSH's answer (loadBaseOptions, lines 158-162)
OptConnect ==
    /\ pc = "opt_start"
    /\ IF sshCfg
       THEN \E ok \in BOOLEAN :
               IF ok
               THEN /\ conns' = conns + 1
                    /\ pc' = "opt_read"
                    /\ UNCHANGED optVars
               ELSE /\ OptBegin(FallbackOpt, "repo", "connect_failed")
                    /\ UNCHANGED <<conns, dataOpt>>
       ELSE /\ OptBegin(FallbackOpt, "repo", "none")
            /\ UNCHANGED <<conns, dataOpt>>
    /\ UNCHANGED <<envVars, otherVars, profiles, dbVars, histVars, err>>

\* readRemoteFile's answer, JSON.parse and conn.end() (lines 164-173)
OptRead ==
    /\ pc = "opt_read"
    /\ conns' = conns - 1
    /\ \E readOk \in BOOLEAN : OptReadEnd(readOk)
    /\ UNCHANGED <<envVars, otherVars, profiles, dbVars, histVars, dataOpt>>

\* the presets addToOptions does not skip
ValidForOptions(p) ==
    LET notes == parseNotes(p)
    IN  /\ notes.res # "null"
        /\ Truthy(notes.vendor)
        /\ Truthy(notes.type)
        /\ Truthy(notes.name)

\* one iteration of the loop over the profiles (lines 190-203)
OptApply ==
    /\ pc = "opt_loop"
    /\ j <= Len(profiles)
    /\ LET p == profiles[j]
           notes == parseNotes(p)
       IN  IF ~ValidForOptions(p)
           THEN UNCHANGED <<obj, processed>>
           ELSE /\ obj' = OptSet(obj, JsString(notes.vendor),
                                 JsString(notes.type), notes.name)
                /\ processed' = processed + 1
    /\ j' = j + 1
    /\ UNCHANGED <<envVars, otherVars, profiles, conns, dbVars, histVars, pc, err,
                   dataOpt, optFrom, optRemote, baseOpt>>

\* the write of data/material_option.json (lines 205-206);
\* fs.writeFileSync throws when the file cannot be written
OptFinish ==
    /\ pc = "opt_loop"
    /\ j > Len(profiles)
    /\ \E writeOk \in BOOLEAN :
          IF writeOk
          THEN /\ dataOpt' = obj
               /\ dataFiles' = dataFiles \cup {"material_option.json"}
               /\ pc' = "opt_done"
               /\ UNCHANGED err
          ELSE /\ BuildThrow("data_write")
               /\ UNCHANGED <<dataOpt, dataFiles>>
    /\ UNCHANGED <<envVars, restVars, profiles, conns, dbVars, histVars,
                   obj, j, processed, optFrom, optRemote, baseOpt>>

\* the locals and outputs before the first call
DbIdle ==
    /\ dbObj = NoDoc
    /\ i = 1
    /\ added = 0
    /\ updated = 0
    /\ dataDb = NoDoc
    /\ dbFrom = "none"
    /\ dbRemote = "none"
    /\ baseList = <<>>

OptIdle ==
    /\ obj = <<>>
    /\ j = 1
    /\ processed = 0
    /\ dataOpt = <<>>
    /\ optFrom = "none"
    /\ optRemote = "none"
    /\ baseOpt = <<>>

\* the two documents sendToPrinter delivers, in the order of filenames
filenames == <<"material_database.json", "material_option.json">>

\* a file: the document it holds and how many of the document's parts;
\* a document has Parts parts
Parts == 2
NoFile == [doc |-> "none", parts |-> 0]
FileOf(doc) == [doc |-> doc, parts |-> Parts]

\* sendToPrinter has not started
SendIdle ==
    /\ tmp = [f \in {filenames[1], filenames[2]} |-> NoFile]
    /\ nameIx = 1
    /\ log = <<>>
    /\ backups = {}

\* the resolver is not run
FixIdle ==
    /\ userDir = <<>>
    /\ systemDir = <<>>
    /\ baseDir = <<>>
    /\ baseDir0 = <<>>
    /\ force = FALSE
    /\ fileIx = 1
    /\ built = 0
    /\ skipped = 0
    /\ warnings = 0
    /\ merges = <<>>

\* nothing is delivered
NoDelivery ==
    /\ doBackup = FALSE
    /\ remoteDir = [f \in {filenames[1], filenames[2]} |-> NoFile]
    /\ SendIdle

(***************************************************************************)
(* tools/scp.js and tools/ssh-util.js: sendToPrinter.                      *)
(***************************************************************************)
Complete(file) == file.doc = "none" \/ file.parts = Parts

LogOp(op, name) == [op |-> op, name |-> name]

\* what sendToPrinter never touches
sendKeeps ==
    <<envVars, profiles, optVars, dbVars, histVars, firstProfiles, dataFiles,
      fixVars, doBackup>>

\* an error leaves uploadFiles: conn.end() in finally, then main.js exits
SendThrow(e) ==
    /\ conns' = conns - 1
    /\ pc' = "exit1"
    /\ err' = e

\* sendFiles up to connectSSH's answer (lines 281-289, 323)
SendConnect ==
    /\ pc = "db_done"
    /\ IF ~sshCfg
       THEN /\ pc' = "exit1"
            /\ err' = "no_printer_config"
            /\ UNCHANGED <<conns, log>>
       ELSE \E ok \in BOOLEAN :
               IF ok
               THEN /\ conns' = conns + 1
                    /\ log' = Append(log, LogOp("connect", ""))
                    /\ pc' = "send_mkdir"
                    /\ UNCHANGED err
               ELSE /\ pc' = "exit1"
                    /\ err' = "connect"
                    /\ UNCHANGED <<conns, log>>
    /\ UNCHANGED <<sendKeeps, remoteDir, tmp, nameIx, backups>>

\* exec of mkdir -p remoteDir, and the first lines of backupRemoteFiles
\* (lines 292-296, 255-264)
SendMkdir ==
    /\ pc = "send_mkdir"
    /\ \E ok \in BOOLEAN :
          IF ok
          THEN /\ log' = Append(log, LogOp("mkdir", ""))
               /\ pc' = IF doBackup THEN "send_backup" ELSE "send_upload"
               /\ UNCHANGED <<conns, err>>
          ELSE /\ SendThrow("exec")
               /\ UNCHANGED log
    /\ nameIx' = 1
    /\ UNCHANGED <<sendKeeps, remoteDir, tmp, backups>>

\* mutant of SendBackup: a failed read of the remote file is not caught
SendBackupNoCatch ==
    /\ pc = "send_backup"
    /\ LET name == filenames[nameIx]
       IN  /\ log' = Append(log, LogOp("read", name))
           /\ \E readOk \in BOOLEAN :
                 IF readOk /\ remoteDir[name].doc # "none"
                 THEN /\ backups' = backups \cup {name}
                      /\ IF nameIx < Len(filenames)
                         THEN nameIx' = nameIx + 1 /\ UNCHANGED pc
                         ELSE nameIx' = 1 /\ pc' = "send_upload"
                      /\ UNCHANGED <<conns, err>>
                 ELSE /\ SendThrow("backup")
                      /\ UNCHANGED <<backups, nameIx>>
    /\ UNCHANGED <<sendKeeps, remoteDir, tmp>>

\* one iteration of the loop of backupRemoteFiles (lines 266-277)
SendBackup ==
    /\ pc = "send_backup"
    /\ LET name == filenames[nameIx]
       IN  /\ log' = Append(log, LogOp("read", name))
           /\ \E readOk \in BOOLEAN :
                 backups' = IF readOk /\ remoteDir[name].doc # "none"
                            THEN backups \cup {name}
                            ELSE backups
    /\ IF nameIx < Len(filenames)
       THEN nameIx' = nameIx + 1 /\ UNCHANGED pc
       ELSE nameIx' = 1 /\ pc' = "send_upload"
    /\ UNCHANGED <<sendKeeps, remoteDir, tmp, conns, err>>

\* the upload of one file up to the start of the remote command: existsSync,
\* readFileSync, and the shell has run mkdir -p and opened <name>.tmp
\* (lines 299-309, ssh-util 71-76)
SendWriteBegin ==
    /\ pc = "send_upload"
    /\ LET name == filenames[nameIx]
       IN  IF name \notin dataFiles
           THEN /\ SendThrow("local_missing")
                /\ UNCHANGED <<log, tmp>>
           ELSE \E ok \in BOOLEAN :
                   IF ok
                   THEN /\ log' = Append(log, LogOp("write", name))
                        /\ tmp' = [tmp EXCEPT ![name] = [doc |-> "new", parts |-> 0]]
                        /\ pc' = "send_write"
                        /\ UNCHANGED <<conns, err>>
                   ELSE /\ SendThrow("exec")
                        /\ UNCHANGED <<log, tmp>>
    /\ UNCHANGED <<sendKeeps, remoteDir, nameIx, backups>>

\* cat > <name>.tmp has taken one more part of the content from its stdin
SendWriteChunk ==
    /\ pc = "send_write"
    /\ LET name == filenames[nameIx]
       IN  /\ tmp[name].parts < Parts
           /\ tmp' = [tmp EXCEPT ![name].parts = @ + 1]
    /\ UNCHANGED <<sendKeeps, remoteDir, nameIx, backups, log, conns, pc, err>>

\* the content has been sent and stdin ended: cat exits, mv -f puts the
\* temporary file at the target, and the exit code is looked at
\* (ssh-util lines 76-80)
SendWriteEnd ==
    /\ pc = "send_write"
    /\ LET name == filenames[nameIx]
       IN  /\ tmp[name].parts = Parts
           /\ \E mvOk \in BOOLEAN :
                 IF mvOk
                 THEN /\ remoteDir' = [remoteDir EXCEPT ![name] = tmp[name]]
                      /\ tmp' = [tmp EXCEPT ![name] = NoFile]
                      /\ pc' = "send_verify"
                      /\ UNCHANGED <<conns, err>>
                 ELSE /\ SendThrow("write")
                      /\ UNCHANGED <<remoteDir, tmp>>
    /\ UNCHANGED <<sendKeeps, nameIx, backups, log>>

\* the stream of the content ends before all of it was sent (the connection
\* is lost, the sender is stopped) or cat fails.  The command carries no
\* length: when the shell is stopped or cat fails, set -e leaves the target
\* alone; when cat only sees its stdin end, it exits with 0 and mv -f puts
\* what has arrived at the target.  exec resolves without code 0.
SendWriteCut ==
    /\ pc = "send_write"
    /\ LET name == filenames[nameIx]
       IN  /\ tmp[name].parts < Parts
           /\ \E catEndsWithZero \in BOOLEAN :
                 IF catEndsWithZero
                 THEN /\ remoteDir' = [remoteDir EXCEPT ![name] = tmp[name]]
                      /\ tmp' = [tmp EXCEPT ![name] = NoFile]
                 ELSE UNCHANGED <<remoteDir, tmp>>
    /\ SendThrow("write")
    /\ UNCHANGED <<sendKeeps, nameIx, backups, log>>

\* exec of ls -l, the next file or the end of uploadFiles (lines 311-319)
SendVerify ==
    /\ pc = "send_verify"
    /\ \E ok \in BOOLEAN :
          IF ~ok
          THEN /\ SendThrow("exec")
               /\ UNCHANGED <<log, nameIx>>
          ELSE /\ log' = Append(log, LogOp("verify", filenames[nameIx]))
               /\ IF nameIx < Len(filenames)
                  THEN /\ nameIx' = nameIx + 1
                       /\ pc' = "send_upload"
                       /\ UNCHANGED <<conns, err>>
                  ELSE /\ conns' = conns - 1
                       /\ pc' = "exit0"
                       /\ UNCHANGED <<nameIx, err>>
    /\ UNCHANGED <<sendKeeps, remoteDir, tmp, backups>>

SendNext ==
    \/ SendConnect \/ SendMkdir \/ SendBackup
    \/ SendWriteBegin \/ SendWriteChunk \/ SendWriteEnd \/ SendWriteCut
    \/ SendVerify

\* the files of remoteDir before a delivery: none, or those of an earlier one
RemoteDirs ==
    {[f \in {filenames[1], filenames[2]} |-> x] : x \in {NoFile, FileOf("old")}}
    \cup {(filenames[1] :> FileOf("old")) @@ (filenames[2] :> NoFile)}

(***************************************************************************)
(* Inputs of addToDatabase.                                                *)
(***************************************************************************)
RECURSIVE SeqsUpTo(_, _)
SeqsUpTo(S, n) ==
    IF n = 0 THEN {<<>>}
    ELSE LET shorter == SeqsUpTo(S, n - 1)
         IN  shorter \cup {Append(q, x) : q \in shorter, x \in S}

\* a preset: with raw identity fields of its own, or with none
MkProfile(raw, notes) ==
    [f |-> [k \in Keys |->
               CASE k = "nozzle_temperature" -> Str(s215)
                 [] k = "name" -> IF raw THEN Arr(Str(sRaw)) ELSE Absent
                 [] k \in {"id", "filament_id"} ->
                        IF raw THEN Str(s99999) ELSE Absent
                 [] k = "filament_settings_id" ->
                        IF raw THEN Arr(Str(sRaw)) ELSE Absent
                 [] k = "filament_vendor" ->
                        IF raw THEN Arr(Str(sAcme)) ELSE Absent
                 [] k = "filament_type" ->
                        IF raw THEN Arr(Str(sPETG)) ELSE Absent
                 [] k = "from" -> IF raw THEN Str(sOEM) ELSE Absent
                 [] k = "is_custom_defined" ->
                        IF raw THEN Num(sOne) ELSE Absent
                 [] OTHER -> Absent],
     notes |-> notes]

DbNotes ==
    {NotesArr(NotesText("obj", Str(s10001), Str(sX), Str(sPLA), Str(sNew))),
     NotesArr(NotesText("obj", Num(s10001), Str(sX), Str(sPLA), Str(sAlt))),
     NotesStr(NotesText("obj", Str(s20002), Str(sY), Str(sPETG), Str(sTwo))),
     NotesArr(NotesText("obj", Absent, Str(sX), Str(sPLA), Str(sNew))),
     NotesArr(PlainText("garbage"))}

DbProfiles ==
    {MkProfile(TRUE, n) : n \in DbNotes} \cup
    {MkProfile(FALSE, NotesArr(NotesText("obj", Str(s10001), Str(sX), Str(sPLA), Str(sNew))))}

\* an entry of the printer's list, as the firmware wrote it
BaseEntry(id) ==
    [f |-> [k \in Keys |->
               CASE k = "id" -> id
                 [] k = "name" -> Arr(Str(sOld))
                 [] OTHER -> Absent],
     notes |-> NoNotes]

BaseEntries ==
    {BaseEntry(Arr(Str(s10001))), BaseEntry(Num(s10001)),
     BaseEntry(Arr(Str(s40004)))}

PrinterDbs ==
    {[state |-> "ok", doc |-> DbDoc("doc", l, c, sZero)] :
        l \in SeqsUpTo(BaseEntries, MaxBase), c \in {0, 7}}
    \cup {[state |-> "ok", doc |-> DbDoc("nolist", <<>>, 0, sZero)],
          [state |-> "missing", doc |-> NoDoc],
          [state |-> "garbage", doc |-> NoDoc]}

InitDb ==
    /\ files = <<>>
    /\ profiles \in SeqsUpTo(DbProfiles, MaxProfiles)
    /\ sshCfg = TRUE
    /\ printerDb \in PrinterDbs
    /\ printerOpt = [state |-> "missing", doc |-> <<>>]
    /\ conns = 0
    /\ OptIdle
    /\ DbIdle
    /\ pc = "opt_done"
    /\ err = "none"
    /\ now = 1700000000
    /\ run = 1
    /\ firstBase = <<>>
    /\ firstOut = <<>>
    /\ firstProfiles = <<>>
    /\ dataFiles = {}
    /\ NoDelivery
    /\ FixIdle

NextDb == DbConnect \/ DbRead \/ DbApply \/ DbFinish \/ DbRunAgain

SpecDb == InitDb /\ [][NextDb]_vars

(***************************************************************************)
(* Inputs of addToOptions.                                                 *)
(***************************************************************************)
OptNotes ==
    {NotesArr(NotesText("obj", Str(s10001), Str(sX), Str(sPLA), Str(sNew))),
     NotesArr(NotesText("obj", Str(s10001), Str(sX), Str(sPLA), Str(sAlt))),
     NotesStr(NotesText("obj", Str(s20002), Str(sX), Str(sPETG), Str(sTwo))),
     NotesArr(NotesText("obj", Str(s20002), Str(sY), Str(sPLA), Str(sTwo))),
     NotesArr(NotesText("obj", Str(s10001), Absent, Str(sPLA), Str(sNew))),
     NotesArr(NotesText("obj", Str(s10001), Str(sX), Str(sPLA), Str(sEmpty))),
     NotesArr(PlainText("garbage"))}

OptProfiles == {MkProfile(FALSE, n) : n \in OptNotes}

PrinterOpts ==
    {[state |-> "ok", doc |-> x @@ y] :
        x \in {<<>>,
               sX :> OptScalar,
               sX :> OptMap(sPLA :> Str(sOld)),
               sX :> OptMap((sPLA :> Str(sOld)) @@ (sPETG :> Str(sOld)))},
        y \in {<<>>, sY :> OptScalar, sY :> OptMap(sPETG :> Str(sOld))}}
    \cup {[state |-> "missing", doc |-> <<>>],
          [state |-> "garbage", doc |-> <<>>]}

InitOpt ==
    /\ files = <<>>
    /\ profiles \in SeqsUpTo(OptProfiles, MaxProfiles)
    /\ sshCfg = TRUE
    /\ printerDb = [state |-> "missing", doc |-> NoDoc]
    /\ printerOpt \in PrinterOpts
    /\ conns = 0
    /\ OptIdle
    /\ DbIdle
    /\ pc = "opt_start"
    /\ err = "none"
    /\ now = 1700000000
    /\ run = 1
    /\ firstBase = <<>>
    /\ firstOut = <<>>
    /\ firstProfiles = <<>>
    /\ dataFiles = {}
    /\ NoDelivery
    /\ FixIdle

NextOpt == OptConnect \/ OptRead \/ OptApply \/ OptFinish

SpecOpt == InitOpt /\ [][NextOpt]_vars

(***************************************************************************)
(* The run of main.js.  Without host and password nothing of the printer   *)
(* is read, so one printer stands for all of them.                         *)
(***************************************************************************)
PresetFile(profile) == [wellFormed |-> TRUE, profile |-> profile]

\* a file whose text JSON.parse rejects
MalformedFile == [wellFormed |-> FALSE, profile |-> MkProfile(FALSE, NoNotes)]

\* a preset without Notes, as the slicer stores it
PlainPreset(vendor, inherits, notes) ==
    [f |-> [k \in Keys |->
               CASE k = "name" -> Str(sNew)
                 [] k = "filament_vendor" -> vendor
                 [] k = "inherits" -> inherits
                 [] k = "nozzle_temperature" -> Str(s215)
                 [] OTHER -> Absent],
     notes |-> notes]

RunFiles ==
    {MalformedFile,
     PresetFile(MkProfile(FALSE,
         NotesArr(NotesText("obj", Str(s10001), Str(sX), Str(sPLA), Str(sNew))))),
     PresetFile(MkProfile(FALSE,
         NotesArr(NotesText("obj", Str(s20002), Absent, Absent, Absent)))),
     PresetFile(PlainPreset(Str(sAcme), Str(sFdmPetg), NotesStr(PlainText("quotes")))),
     PresetFile(PlainPreset(Absent, Absent, NoNotes))}

RunPrinterDbs ==
    {[state |-> "ok",
      doc |-> DbDoc("doc", <<BaseEntry(Arr(Str(s10001)))>>, 1, sZero)],
     [state |-> "ok", doc |-> DbDoc("nolist", <<>>, 0, sZero)],
     [state |-> "missing", doc |-> NoDoc],
     [state |-> "garbage", doc |-> NoDoc]}

RunPrinterOpts ==
    {[state |-> "ok", doc |-> sX :> OptMap(sPLA :> Str(sOld))],
     [state |-> "missing", doc |-> <<>>],
     [state |-> "garbage", doc |-> <<>>]}

Init ==
    /\ files \in SeqsUpTo(RunFiles, MaxFiles)
    /\ profiles = <<>>
    /\ \/ /\ sshCfg = TRUE
          /\ printerDb \in RunPrinterDbs
          /\ printerOpt \in RunPrinterOpts
          /\ doBackup \in BOOLEAN
       \/ /\ sshCfg = FALSE
          /\ printerDb = [state |-> "missing", doc |-> NoDoc]
          /\ printerOpt = [state |-> "missing", doc |-> <<>>]
          /\ doBackup = TRUE
    /\ conns = 0
    /\ OptIdle
    /\ DbIdle
    /\ pc = "init"
    /\ err = "none"
    /\ now = 1700000000
    /\ run = 1
    /\ firstBase = <<>>
    /\ firstOut = <<>>
    /\ firstProfiles = <<>>
    /\ dataFiles = {}
    /\ remoteDir = (filenames[1] :> FileOf("old")) @@ (filenames[2] :> NoFile)
    /\ SendIdle
    /\ FixIdle

Next ==
    \/ InitData
    \/ OptConnect \/ OptRead \/ OptApply \/ OptFinish
    \/ DbConnect \/ DbRead \/ DbApply \/ DbFinish
    \/ SendConnect \/ SendMkdir \/ SendBackup
    \/ SendWriteBegin \/ SendWriteChunk \/ SendWriteEnd \/ SendWriteCut
    \/ SendVerify

Spec == Init /\ [][Next]_vars

(***************************************************************************)
(* Inputs of sendToPrinter, called on the files that data/ holds.          *)
(***************************************************************************)
InitSend ==
    /\ files = <<>>
    /\ profiles = <<>>
    /\ sshCfg \in BOOLEAN
    /\ printerDb = [state |-> "missing", doc |-> NoDoc]
    /\ printerOpt = [state |-> "missing", doc |-> <<>>]
    /\ conns = 0
    /\ dataFiles \in SUBSET {filenames[1], filenames[2]}
    /\ dataDb = IF filenames[1] \in dataFiles THEN FallbackDb ELSE NoDoc
    /\ dataOpt = IF filenames[2] \in dataFiles THEN FallbackOpt ELSE <<>>
    /\ dbObj = NoDoc
    /\ i = 1
    /\ added = 0
    /\ updated = 0
    /\ dbFrom = "none"
    /\ dbRemote = "none"
    /\ baseList = <<>>
    /\ obj = <<>>
    /\ j = 1
    /\ processed = 0
    /\ optFrom = "none"
    /\ optRemote = "none"
    /\ baseOpt = <<>>
    /\ pc = "db_done"
    /\ err = "none"
    /\ now = 1700000000
    /\ run = 1
    /\ firstBase = <<>>
    /\ firstOut = <<>>
    /\ firstProfiles = <<>>
    /\ doBackup \in BOOLEAN
    /\ remoteDir \in RemoteDirs
    /\ SendIdle
    /\ FixIdle

NextSend == SendNext

SpecSend == InitSend /\ [][NextSend]_vars

(***************************************************************************)
(* Inputs of filterProfiles: one preset per run, and a second run of       *)
(* initData on the same directory.                                         *)
(***************************************************************************)
sSlaPla == <<115, 108, 97, 95, 102, 105, 108, 97, 109, 101, 110, 116, 95, 112, 108, 97>>
sGenericPetg == <<71, 101, 110, 101, 114, 105, 99, 32, 80, 69, 84, 71>>
sMixedCase ==
    <<77, 121, 32, 70, 68, 77, 95, 70, 105, 108, 97, 109, 101, 110, 116, 95,
      80, 108, 97, 95, 120, 32, 64, 72, 105>>
sPLA_X == <<80, 76, 65, 95, 88>>

GenPreset(name, vendor, type, inherits, notes) ==
    [f |-> [key \in Keys |->
               CASE key = "name" -> name
                 [] key = "filament_vendor" -> vendor
                 [] key = "filament_type" -> type
                 [] key = "inherits" -> inherits
                 [] key = "nozzle_temperature" -> Str(s215)
                 [] OTHER -> Absent],
     notes |-> notes]

GenProfiles ==
    {GenPreset(name, vendor, type, inherits, notes) :
        name \in {Absent, Str(sNew), Arr(Str(sNew)), Str(sEmpty)},
        vendor \in {Absent, Str(sAcme), Arr(Str(sAcme))},
        type \in {Absent, Arr(Str(sPLA)), Str(sEmpty)},
        inherits \in {Absent, Str(sFdmPetg), Arr(Str(sMixedCase)),
                      Str(sSlaPla), Str(sGenericPetg)},
        notes \in {NoNotes, NotesStr(PlainText("quotes")),
                   NotesArr(PlainText("garbage")),
                   NotesArr(NotesText("obj", Str(s10001), Str(sX), Str(sPLA),
                                      Str(sNew)))}}

InitGen ==
    /\ \E p \in GenProfiles : files = <<PresetFile(p)>>
    /\ profiles = <<>>
    /\ sshCfg = FALSE
    /\ printerDb = [state |-> "missing", doc |-> NoDoc]
    /\ printerOpt = [state |-> "missing", doc |-> <<>>]
    /\ conns = 0
    /\ OptIdle
    /\ DbIdle
    /\ pc = "init"
    /\ err = "none"
    /\ now = 1700000000
    /\ run = 1
    /\ firstBase = <<>>
    /\ firstOut = <<>>
    /\ firstProfiles = <<>>
    /\ dataFiles = {}
    /\ NoDelivery
    /\ FixIdle

\* initData is run a second time on the same directory, at a later time
GenRunAgain ==
    /\ pc = "opt_start"
    /\ run = 1
    /\ run' = run + 1
    /\ now' = now + 1
    /\ firstProfiles' = profiles
    /\ profiles' = <<>>
    /\ pc' = "init"
    /\ UNCHANGED <<envVars, conns, optVars, dbVars, firstBase, firstOut, err,
                   dataFiles, sendVars, fixVars>>

NextGen == InitData \/ GenRunAgain

SpecGen == InitGen /\ [][NextGen]_vars

(***************************************************************************)
(* fix-creality-base-filaments.js, the preset resolver.  A preset is a     *)
(* function from FixKeys to JSON values, Absent for a key it does not      *)
(* have; a file is the class of its text and the preset it parses to.      *)
(***************************************************************************)
FixKeys ==
    {"name", "from", "inherits", "base_id", "filament_type",
     "nozzle_temperature", "filament_flow_ratio"}

STRING_KEYS ==
    {"type", "name", "from", "instantiation", "inherits", "filament_id",
     "setting_id", "base_id", "version", "is_custom_defined"}

EmptyPreset == [key \in FixKeys |-> Absent]

\* a file whose text is a JSON object, the JSON null, or no JSON
JsonFile(preset) == [json |-> "object", preset |-> preset]
NullFile == [json |-> "null", preset |-> EmptyPreset]
BadFile == [json |-> "bad", preset |-> EmptyPreset]

HasKey(preset, key) == preset[key] # Absent
KeysOf(preset) == {key \in FixKeys : HasKey(preset, key)}
countKeys(preset) == Cardinality(KeysOf(preset))

\* typeof v === "string"
IsString(v) == ~v.arr /\ v.t = "str"

WhiteSpace == {9, 10, 11, 12, 13, 32}

RECURSIVE trimStart(_)
trimStart(s) ==
    IF s # <<>> /\ Head(s) \in WhiteSpace THEN trimStart(Tail(s)) ELSE s

RECURSIVE trimEnd(_)
trimEnd(s) ==
    IF s # <<>> /\ s[Len(s)] \in WhiteSpace
    THEN trimEnd(SubSeq(s, 1, Len(s) - 1))
    ELSE s

trim(s) == trimEnd(trimStart(s))

sJsonExt == <<46, 106, 115, 111, 110>>

endsWith(s, suffix) ==
    /\ Len(s) >= Len(suffix)
    /\ SubSeq(s, Len(s) - Len(suffix) + 1, Len(s)) = suffix

\* path.basename(fname, ".json")
basename(fname) ==
    IF endsWith(fname, sJsonExt) /\ Len(fname) > Len(sJsonExt)
    THEN SubSeq(fname, 1, Len(fname) - Len(sJsonExt))
    ELSE fname

\* the code units of < > : " / \ | ? * and the control characters
Forbidden == {60, 62, 58, 34, 47, 92, 124, 63, 42} \cup 0..31

sanitizeFilename(name) ==
    trim([x \in 1..Len(name) |-> IF name[x] \in Forbidden THEN 95 ELSE name[x]])

\* mutant of normalizePresetValues: the metadata keys are wrapped as well
normalizeWrapAll(preset) ==
    [key \in FixKeys |->
        LET v == preset[key]
        IN  IF v = Absent \/ v.arr THEN v ELSE Arr(Str(JsString(v)))]

normalizePresetValues(preset) ==
    [key \in FixKeys |->
        LET v == preset[key]
        IN  IF v = Absent \/ v.arr THEN v
            ELSE IF key \in STRING_KEYS THEN Str(JsString(v))
            ELSE Arr(Str(JsString(v)))]

\* mutant of ObjectAssign: the system preset's values win over the user's
ObjectAssignBaseLast(rootN, baseN, userN) ==
    [key \in FixKeys |->
        IF HasKey(baseN, key) THEN baseN[key]
        ELSE IF HasKey(userN, key) THEN userN[key]
        ELSE rootN[key]]

\* Object.assign({}, rootN, baseN, userN)
ObjectAssign(rootN, baseN, userN) ==
    [key \in FixKeys |->
        IF HasKey(userN, key) THEN userN[key]
        ELSE IF HasKey(baseN, key) THEN baseN[key]
        ELSE rootN[key]]

\* findSystemPresetPathByName(name, systemRoot) # null
findSystemPresetPathByName(name) == name # sEmpty /\ name \in DOMAIN systemDir

\* userPreset.from, trimmed and lower-cased, '' when it is no string
fromVal(userPreset) ==
    IF IsString(userPreset["from"])
    THEN toLowerCase(trim(userPreset["from"].s))
    ELSE sEmpty

looksLikeTruncatedUserPreset(file) ==
    /\ file.json = "object"
    /\ fromVal(file.preset) = toLowerCase(sUser)
    /\ IsString(file.preset["inherits"])
    /\ IsString(file.preset["base_id"])
    /\ countKeys(file.preset) < 120

\* basePreset.inherits trimmed, '' for the null of a preset without one
rootNameOf(baseFile) ==
    IF baseFile.json = "object" /\ IsString(baseFile.preset["inherits"])
    THEN trim(baseFile.preset["inherits"].s)
    ELSE sEmpty

\* rootPreset: {} without a root name, a root file or valid JSON in it
rootPresetOf(rootName) ==
    IF findSystemPresetPathByName(rootName) /\ systemDir[rootName].json # "bad"
    THEN systemDir[rootName].preset
    ELSE EmptyPreset

\* mutant of mergedPreset: inherits keeps the value the merge gave it
mergedKeepInherits(fname, userPreset, basePreset, rootName, rootPreset) ==
    LET m0 == ObjectAssign(normalizePresetValues(rootPreset),
                           normalizePresetValues(basePreset),
                           normalizePresetValues(userPreset))
    IN  IF Truthy(m0["name"]) /\ IsString(m0["name"]) THEN m0
        ELSE [m0 EXCEPT !["name"] = Str(basename(fname))]

\* merged, from the three layers to the value that is written (lines 346-361)
mergedPreset(fname, userPreset, basePreset, rootName, rootPreset) ==
    LET m0 == ObjectAssign(normalizePresetValues(rootPreset),
                           normalizePresetValues(basePreset),
                           normalizePresetValues(userPreset))
        m1 == IF rootName # sEmpty
              THEN [m0 EXCEPT !["inherits"] = Str(rootName)]
              ELSE m0
    IN  IF Truthy(m1["name"]) /\ IsString(m1["name"]) THEN m1
        ELSE [m1 EXCEPT !["name"] = Str(basename(fname))]

\* the iteration skips the file
FixSkip ==
    /\ skipped' = skipped + 1
    /\ UNCHANGED <<baseDir, built, warnings, merges>>

\* mutant of skipExisting: an existing destination is never skipped
skipExistingNever(outName) == FALSE

\* isFile(outPath) && !FORCE (line 294)
skipExisting(outName) == outName \in DOMAIN baseDir /\ ~force

\* one iteration of the loop over jsonFiles (lines 257-382)
FixApply ==
    /\ pc = "fix_loop"
    /\ fileIx <= Len(userDir)
    /\ LET fname == userDir[fileIx].name
           file == userDir[fileIx].file
           outName == sanitizeFilename(fname)
           baseName == trim(file.preset["inherits"].s)
           baseFile == systemDir[baseName]
           rootName == rootNameOf(baseFile)
           rootMissing ==
               /\ rootName # sEmpty
               /\ \/ ~findSystemPresetPathByName(rootName)
                  \/ systemDir[rootName].json = "bad"
           rootPreset == rootPresetOf(rootName)
           merged == mergedPreset(fname, file.preset, baseFile.preset,
                                  rootName, rootPreset)
           small == IF countKeys(merged) < 120 THEN 1 ELSE 0
       IN  IF \/ file.json = "bad"
              \/ ~looksLikeTruncatedUserPreset(file)
              \/ skipExisting(outName)
              \/ ~findSystemPresetPathByName(baseName)
              \/ baseFile.json = "bad"
           THEN FixSkip
           ELSE /\ warnings' = warnings + small + (IF rootMissing THEN 1 ELSE 0)
                /\ \E writeOk \in BOOLEAN :
                      IF writeOk
                      THEN /\ baseDir' = (outName :> JsonFile(merged)) @@ baseDir
                           /\ built' = built + 1
                           /\ merges' =
                                  (outName :>
                                      [fname |-> fname,
                                       user |-> file.preset,
                                       system |-> baseFile.preset,
                                       root |-> rootPreset,
                                       baseName |-> baseName,
                                       rootName |-> rootName,
                                       rootFound |-> findSystemPresetPathByName(rootName)])
                                  @@ merges
                           /\ UNCHANGED skipped
                      ELSE /\ skipped' = skipped + 1
                           /\ UNCHANGED <<baseDir, built, merges>>
    /\ fileIx' = fileIx + 1
    /\ UNCHANGED <<envVars, profiles, conns, optVars, dbVars, histVars, pc, err,
                   firstProfiles, dataFiles, sendVars, userDir, systemDir,
                   baseDir0, force>>

\* the end of the loop: the counters are returned (lines 384-387)
FixDone ==
    /\ pc = "fix_loop"
    /\ fileIx > Len(userDir)
    /\ pc' = "fix_done"
    /\ UNCHANGED <<envVars, profiles, conns, optVars, dbVars, histVars, err,
                   firstProfiles, dataFiles, sendVars, fixVars>>

(***************************************************************************)
(* Inputs of the resolver.                                                 *)
(***************************************************************************)
sGen == <<71, 101, 110>>
sGenPadded == <<32, 71, 101, 110, 32>>
sSolo == <<83, 111, 108, 111>>
sOrphan == <<79, 114, 112, 104, 97, 110>>
sNope == <<78, 111, 112, 101>>
sLost == <<76, 111, 115, 116>>
sCommon == <<99, 111, 109, 109, 111, 110>>
sMine == <<77, 105, 110, 101>>
sSystem == <<115, 121, 115, 116, 101, 109>>
sUserPadded == <<32, 117, 115, 101, 114, 32>>
sBaseId == <<71, 70, 83, 65, 48, 52>>
s220 == <<50, 50, 48>>
s230 == <<50, 51, 48>>
s240 == <<50, 52, 48>>
fA == <<65, 46, 106, 115, 111, 110>>
fB == <<66, 58, 46, 106, 115, 111, 110>>
fC == <<67, 46, 74, 83, 79, 78>>
FixNames == <<fA, fB, fC>>

MkPreset(name, from, inherits, base_id, type, temp, flow) ==
    [key \in FixKeys |->
        CASE key = "name" -> name
          [] key = "from" -> from
          [] key = "inherits" -> inherits
          [] key = "base_id" -> base_id
          [] key = "filament_type" -> type
          [] key = "nozzle_temperature" -> temp
          [] key = "filament_flow_ratio" -> flow]

\* the root template, the system presets that name it, one that names a
\* template the directory lacks, and one that names none
RootTemplate ==
    MkPreset(Str(sFdmPetg), Str(sSystem), Str(sCommon), Absent,
             Arr(Str(sPETG)), Arr(Str(s220)), Arr(Str(sOne)))

SystemDirs ==
    {(sFdmPetg :> root) @@ (sGen :> gen)
        @@ (sOrphan :> JsonFile(MkPreset(Str(sOrphan), Str(sSystem), Str(sLost),
                                         Absent, Absent, Arr(Str(s240)), Absent)))
        @@ (sSolo :> JsonFile(MkPreset(Str(sSolo), Str(sSystem), Absent,
                                       Absent, Absent, Arr(Str(s240)), Absent))) :
        root \in {JsonFile(RootTemplate), NullFile, BadFile},
        gen \in {JsonFile(MkPreset(Str(sGenPadded), Str(sSystem), Str(sFdmPetg),
                                   Absent, Absent, Arr(Str(s240)), Absent)),
                 BadFile}}

UserFiles ==
    {JsonFile(MkPreset(Str(sMine), Str(sUser), Str(sGen), Str(sBaseId),
                       Absent, Str(s230), Absent)),
     JsonFile(MkPreset(Arr(Str(sMine)), Str(sUserPadded), Str(sGenPadded),
                       Str(sBaseId), Absent, Num(s215), Null)),
     JsonFile(MkPreset(Absent, Str(sUser), Str(sOrphan), Str(sBaseId),
                       Str(sPLA), Absent, Absent)),
     JsonFile(MkPreset(Str(sEmpty), Str(sUser), Str(sSolo), Str(sBaseId),
                       Absent, Arr(Str(s230)), Absent)),
     JsonFile(MkPreset(Str(sMine), Str(sUser), Str(sNope), Str(sBaseId),
                       Absent, Absent, Absent)),
     JsonFile(MkPreset(Str(sMine), Str(sSystem), Str(sGen), Absent,
                       Absent, Arr(Str(s230)), Absent)),
     BadFile}

UserDirs ==
    UNION {[1..len -> UserFiles] : len \in 0..MaxFiles}

\* an expansion that an earlier run left in filament/base
OldExpansion ==
    JsonFile(MkPreset(Str(sOld), Str(sUser), Str(sFdmPetg), Str(sBaseId),
                      Arr(Str(sPETG)), Arr(Str(s220)), Arr(Str(sOne))))

BaseDirs ==
    {<<>>,
     sanitizeFilename(fA) :> OldExpansion,
     (sanitizeFilename(fA) :> OldExpansion) @@ (sanitizeFilename(fB) :> OldExpansion)}

InitFix ==
    /\ \E files0 \in UserDirs :
          userDir = [x \in DOMAIN files0 |-> [name |-> FixNames[x], file |-> files0[x]]]
    /\ systemDir \in SystemDirs
    /\ baseDir \in BaseDirs
    /\ baseDir0 = baseDir
    /\ force \in BOOLEAN
    /\ fileIx = 1
    /\ built = 0
    /\ skipped = 0
    /\ warnings = 0
    /\ merges = <<>>
    /\ files = <<>>
    /\ profiles = <<>>
    /\ sshCfg = FALSE
    /\ printerDb = [state |-> "missing", doc |-> NoDoc]
    /\ printerOpt = [state |-> "missing", doc |-> <<>>]
    /\ conns = 0
    /\ OptIdle
    /\ DbIdle
    /\ pc = "fix_loop"
    /\ err = "none"
    /\ now = 1700000000
    /\ run = 1
    /\ firstBase = <<>>
    /\ firstOut = <<>>
    /\ firstProfiles = <<>>
    /\ dataFiles = {}
    /\ NoDelivery

NextFix == FixApply \/ FixDone

SpecFix == InitFix /\ [][NextFix]_vars

(***************************************************************************)
(* Properties of addToDatabase.                                            *)
(***************************************************************************)
NoDupIds(list) ==
    \A a, b \in 1..Len(list) : a # b => idOf(list[a]) # idOf(list[b])

\* the presets addToDatabase does not skip
ValidForDb(p) ==
    LET n == parseNotes(p) IN n.res # "null" /\ Truthy(n.id)

\* the Notes ids the presets carry, as strings
NotesIds(ps) ==
    {JsString(parseNotes(ps[k]).id) :
        k \in {x \in 1..Len(ps) : parseNotes(ps[x]).id.t # "absent"}}

CountOf(list, id) == Cardinality({k \in 1..Len(list) : idOf(list[k]) = id})

InDbLoop == pc \in {"db_loop", "db_done"}

\* C1: when the baseline list has no two entries with the same id, the list
\* addToDatabase builds, after every preset it has processed and when it is
\* written, has at most one Material per id.
C1_AtMostOnePerId ==
    (InDbLoop /\ NoDupIds(baseList)) =>
        /\ NoDupIds(dbObj.list)
        /\ pc = "db_done" => NoDupIds(dataDb.list)

\* C1 witness: two presets with the same Notes id were applied in one batch
\* to a duplicate-free printer list that did not hold that id.
C1_Witness ==
    /\ pc = "db_done"
    /\ dbFrom = "printer"
    /\ NoDupIds(baseList)
    /\ Len(baseList) = 1
    /\ Len(profiles) = 2
    /\ added = 1
    /\ updated = 1

\* C2: a second run with the same presets, on the baseline of the first run
\* or on the list the first run wrote, writes the same list as the first
\* run, with as many entries per id.
C2_Idempotent ==
    (run >= 2 /\ pc = "db_done" /\ (baseList = firstBase \/ baseList = firstOut)) =>
        /\ dataDb.list = firstOut
        /\ \A id \in NotesIds(profiles) :
              CountOf(dataDb.list, id) = CountOf(firstOut, id)

\* C2 witness: the second run read the list the first run wrote, which
\* differs from the first baseline, and updated entries of it.
C2_Witness ==
    /\ run = 2
    /\ pc = "db_done"
    /\ dbFrom = "printer"
    /\ baseList = firstOut
    /\ firstOut # firstBase
    /\ Len(firstOut) > Len(firstBase)
    /\ updated = 2

\* C3: every entry of the baseline list whose id no preset's Notes id
\* matches is in the list, unchanged and at its position, and the list is
\* never shorter than the baseline.
C3_NoDeletion ==
    InDbLoop =>
        /\ Len(dbObj.list) >= Len(baseList)
        /\ \A k \in 1..Len(baseList) :
              idOf(baseList[k]) \notin NotesIds(profiles) =>
                  dbObj.list[k] = baseList[k]
        /\ pc = "db_done" => dataDb.list = dbObj.list

\* C3 witness: an update and an insert happened next to an entry that no
\* preset matches.
C3_Witness ==
    /\ pc = "db_done"
    /\ dbFrom = "printer"
    /\ updated >= 1
    /\ added >= 1
    /\ \E k \in 1..Len(baseList) :
          /\ idOf(baseList[k]) \notin NotesIds(profiles)
          /\ dataDb.list[k] = baseList[k]

\* one iteration of the loop on a preset that is not skipped
ApplyOfValid ==
    /\ pc = "db_loop"
    /\ i <= Len(profiles)
    /\ i' = i + 1
    /\ ValidForDb(profiles[i])

\* C4: a preset with a valid Notes id replaces the first entry whose id is
\* the same string, leaving the length and every other entry as they were,
\* or, when no entry has that id, is appended at the end; one of the two
\* counters grows by one.
C4_UpdateOrInsert ==
    [][ApplyOfValid =>
        LET list == dbObj.list
            id == JsString(parseNotes(profiles[i]).id)
            hits == {k \in 1..Len(list) : idOf(list[k]) = id}
        IN  IF hits # {}
            THEN LET first == CHOOSE k \in hits : \A h \in hits : k <= h
                 IN  /\ Len(dbObj'.list) = Len(list)
                     /\ idOf(dbObj'.list[first]) = id
                     /\ \A k \in 1..Len(list) :
                           k # first => dbObj'.list[k] = list[k]
                     /\ updated' = updated + 1
                     /\ added' = added
            ELSE /\ Len(dbObj'.list) = Len(list) + 1
                 /\ SubSeq(dbObj'.list, 1, Len(list)) = list
                 /\ idOf(dbObj'.list[Len(list) + 1]) = id
                 /\ added' = added + 1
                 /\ updated' = updated]_vars

\* C4 witness: the printer list held two entries with the id of a preset,
\* and the preset was applied.
C4_Witness ==
    /\ pc = "db_done"
    /\ dbFrom = "printer"
    /\ run = 1
    /\ Len(baseList) = 2
    /\ idOf(baseList[1]) = idOf(baseList[2])
    /\ baseList[1] # baseList[2]
    /\ idOf(baseList[1]) \in NotesIds(profiles)
    /\ updated >= 1
    /\ dataDb.list[2] = baseList[2]

\* C5: in the document addToDatabase writes, count is the length of list.
C5_CountIsLength ==
    dataDb.shape = "doc" => dataDb.count = Len(dataDb.list)

\* C5 witness: the printer list was empty with a count of 7, one preset was
\* added and the count written is 1.
C5_Witness ==
    /\ pc = "db_done"
    /\ run = 1
    /\ dbFrom = "printer"
    /\ baseList = <<>>
    /\ printerDb.doc.count = 7
    /\ added = 1
    /\ dataDb.count = 1

\* C6: the Material built from a preset has id and filament_id of the Notes
\* id, name and filament_settings_id of the Notes name, filament_vendor and
\* filament_type of the Notes vendor and type, from "User" and
\* is_custom_defined 0, whatever the preset's own fields hold.
C6_IdentityFromNotes ==
    [][ApplyOfValid =>
        LET n == parseNotes(profiles[i])
            hits == {k \in 1..Len(dbObj.list) : idOf(dbObj.list[k]) = JsString(n.id)}
            at == IF hits # {}
                  THEN CHOOSE k \in hits : \A h \in hits : k <= h
                  ELSE Len(dbObj.list) + 1
            m == dbObj'.list[at].f
        IN  /\ m["id"] = Arr(Str(JsString(n.id)))
            /\ m["filament_id"] = Arr(Str(JsString(n.id)))
            /\ m["name"] = Arr(Str(JsString(n.name)))
            /\ m["filament_settings_id"] = Arr(Str(JsString(n.name)))
            /\ m["filament_vendor"] = Arr(Str(JsString(n.vendor)))
            /\ m["filament_type"] = Arr(Str(JsString(n.type)))
            /\ m["from"] = Arr(Str(sUser))
            /\ m["is_custom_defined"] = Arr(Num(sZero))]_vars

\* C6 witness: a Material in the written list came from a preset whose own
\* id, name, vendor, type, from and is_custom_defined differ from its Notes.
C6_Witness ==
    /\ pc = "db_done"
    /\ Len(profiles) = 1
    /\ ValidForDb(profiles[1])
    /\ profiles[1].f["id"] = Str(s99999)
    /\ profiles[1].f["from"] = Str(sOEM)
    /\ \E k \in 1..Len(dataDb.list) :
          /\ dataDb.list[k].f["id"] = Arr(Str(s10001))
          /\ dataDb.list[k].f["from"] = Arr(Str(sUser))
          /\ dataDb.list[k].f["nozzle_temperature"] = Arr(Str(s215))

(***************************************************************************)
(* Properties of the run: filterProfiles, addToOptions, the baselines.     *)
(***************************************************************************)
\* C7: every preset filterProfiles passes on has Notes that are not empty,
\* that JSON.parse accepts, and whose vendor, type and name are not empty.
C7_NotesComplete ==
    pc # "init" =>
        \A k \in 1..Len(profiles) :
            LET text == getNotesString(profiles[k])
                notes == JsonParse(text)
            IN  /\ ~notesLooksEmpty(text)
                /\ notes.res # "throws"
                /\ Truthy(notes.vendor)
                /\ Truthy(notes.type)
                /\ Truthy(notes.name)

\* the value at obj[vendor][type], Absent when there is none
OptLookup(o, vendor, type) ==
    IF vendor \in DOMAIN o /\ o[vendor].kind = "map" /\ type \in DOMAIN o[vendor].m
    THEN o[vendor].m[type]
    ELSE Absent

\* the presets among the first n that name the pair (vendor, type)
NamedBy(n, vendor, type) ==
    {k \in 1..n :
        /\ ValidForOptions(profiles[k])
        /\ JsString(parseNotes(profiles[k]).vendor) = vendor
        /\ JsString(parseNotes(profiles[k]).type) = type}

OptVendorKeys ==
    DOMAIN baseOpt \cup DOMAIN obj \cup
    {JsString(parseNotes(profiles[k]).vendor) : k \in 1..Len(profiles)}

OptTypeKeys ==
    UNION {DOMAIN baseOpt[v].m : v \in DOMAIN baseOpt}
    \cup UNION {DOMAIN obj[v].m : v \in DOMAIN obj}
    \cup {JsString(parseNotes(profiles[k]).type) : k \in 1..Len(profiles)}

\* C8: after the first j-1 presets, obj[vendor][type] is the name of the last
\* valid preset among them with that vendor and type, and the baseline's
\* value for a pair none of them names; a vendor none of them names keeps
\* its baseline value; the file written is that document.
C8_KeyOverwrite ==
    pc \in {"opt_loop", "opt_done"} =>
        /\ \A v \in OptVendorKeys, t \in OptTypeKeys :
              LET named == NamedBy(j - 1, v, t)
                  last == CHOOSE k \in named : \A h \in named : h <= k
              IN  OptLookup(obj, v, t) =
                      IF named = {} THEN OptLookup(baseOpt, v, t)
                      ELSE parseNotes(profiles[last]).name
        /\ \A v \in DOMAIN baseOpt :
              (\A t \in OptTypeKeys : NamedBy(j - 1, v, t) = {}) =>
                  v \in DOMAIN obj /\ obj[v] = baseOpt[v]
        /\ pc = "opt_done" => dataOpt = obj

\* C8 witness: two presets named the same pair of a vendor the printer's
\* document had, the second name was written and the vendor's other type
\* kept its value.
C8_Witness ==
    /\ pc = "opt_done"
    /\ optFrom = "printer"
    /\ processed = 2
    /\ OptLookup(baseOpt, sX, sPLA) = Str(sOld)
    /\ OptLookup(baseOpt, sX, sPETG) = Str(sOld)
    /\ parseNotes(profiles[1]).name = Str(sNew)
    /\ OptLookup(dataOpt, sX, sPLA) = Str(sAlt)
    /\ OptLookup(dataOpt, sX, sPETG) = Str(sOld)

\* the errors that addToOptions and addToDatabase throw
BuildErrors == {"db_shape", "data_write"}

\* the errors that sendToPrinter throws
SendErrors == {"connect", "exec", "write", "local_missing"}

\* what both loaders do whether or not a read of the printer is attempted
BaselineChosen ==
    /\ optFrom = "printer" <=> optRemote = "ok"
    /\ dbFrom = "printer" <=> dbRemote = "ok"
    /\ optFrom = "printer" => printerOpt.state = "ok" /\ baseOpt = printerOpt.doc
    /\ dbFrom = "printer" => printerDb.state = "ok" /\ baseList = printerDb.doc.list
    /\ optRemote \in RemoteFailures =>
          /\ optFrom = "repo"
          /\ baseOpt = FallbackOpt
          /\ pc \notin {"opt_start", "opt_read"}
          /\ pc = "exit1" => err \in BuildErrors \cup SendErrors
    /\ dbRemote \in RemoteFailures =>
          /\ dbFrom = "repo"
          /\ baseList = FallbackDb.list
          /\ pc \notin {"opt_done", "db_read"}
          /\ pc = "exit1" => err \in {"data_write"} \cup SendErrors
    /\ optFrom # "none" /\ printerOpt.state # "ok" => optFrom = "repo"
    /\ dbFrom # "none" /\ printerDb.state # "ok" => dbFrom = "repo"

\* C9 as claimed: for both documents a read of the printer's live document
\* is attempted before a baseline is chosen, a failure of it makes the
\* snapshot of the repository the baseline and the run goes on, and the live
\* document is the baseline exactly when read and parse succeed.
C9_RemoteReadFirst ==
    /\ optFrom # "none" => optRemote # "none"
    /\ dbFrom # "none" => dbRemote # "none"
    /\ BaselineChosen

\* C9 amended: the read of the printer is attempted exactly when host and
\* password are configured; without them the snapshot of the repository is
\* the baseline and no read is attempted.  The rest is as claimed.
C9_RemoteReadWhenConfigured ==
    /\ optFrom # "none" => (optRemote # "none" <=> sshCfg)
    /\ dbFrom # "none" => (dbRemote # "none" <=> sshCfg)
    /\ ~sshCfg => optFrom \in {"none", "repo"} /\ dbFrom \in {"none", "repo"}
    /\ BaselineChosen

\* C9 witness: the read of the options failed and the snapshot was used, the
\* run went on, and the read of the database succeeded and was the baseline.
C9_Witness ==
    /\ sshCfg
    /\ pc = "db_done"
    /\ optRemote = "read_failed"
    /\ printerOpt.state = "missing"
    /\ dataOpt # <<>>
    /\ dbRemote = "ok"
    /\ dbFrom = "printer"
    /\ baseList # FallbackDb.list

\* C10: a preset file that JSON.parse rejects is skipped and the other
\* presets of the directory are still processed.
C10_MalformedFileSkipped ==
    (pc # "init" /\ \E k \in 1..Len(files) : files[k].wellFormed) =>
        /\ err # "bad_preset_json"
        /\ Len(profiles) = Cardinality({k \in 1..Len(files) : files[k].wellFormed})

(***************************************************************************)
(* Properties of the resolver.                                             *)
(***************************************************************************)
\* the layers that have the key, among root, system and user
LayersWith(m, key) ==
    {l \in {"root", "system", "user"} : HasKey(m[l], key)}

\* the value of the topmost layer that has the key, as the merge sees it
TopLayerValue(m, key) ==
    IF HasKey(m.user, key) THEN normalizePresetValues(m.user)[key]
    ELSE IF HasKey(m.system, key) THEN normalizePresetValues(m.system)[key]
    ELSE normalizePresetValues(m.root)[key]

\* the presets the resolver has written, by file name
Resolved(outName) == baseDir[outName].preset

\* C11 as claimed: in every preset the resolver writes, every key that more
\* than one of root, system and user has carries the user's value when the
\* user layer has the key, else the system's, else the root's.
C11_MergePrecedence ==
    \A outName \in DOMAIN merges :
        \A key \in FixKeys :
            Cardinality(LayersWith(merges[outName], key)) > 1 =>
                Resolved(outName)[key] = TopLayerValue(merges[outName], key)

\* C11 amended: the same for every key but two: inherits, when the system
\* preset names a root template, and name, when the topmost layer's name is
\* not a non-empty string.
C11_MergePrecedenceButInheritsAndName ==
    \A outName \in DOMAIN merges :
        \A key \in FixKeys :
            LET m == merges[outName]
                top == TopLayerValue(m, key)
            IN  (/\ Cardinality(LayersWith(m, key)) > 1
                 /\ ~(key = "inherits" /\ m.rootName # sEmpty)
                 /\ ~(key = "name" /\ ~(IsString(top) /\ top.s # sEmpty)))
                    => Resolved(outName)[key] = top

\* C11 witness: root, system and user had three different nozzle
\* temperatures and the preset written has the user's; the system's name
\* stands where the user has none.
C11_Witness ==
    /\ pc = "fix_done"
    /\ \E outName \in DOMAIN merges :
          LET m == merges[outName]
          IN  /\ m.root["nozzle_temperature"] = Arr(Str(s220))
              /\ m.system["nozzle_temperature"] = Arr(Str(s240))
              /\ m.user["nozzle_temperature"] = Str(s230)
              /\ Resolved(outName)["nozzle_temperature"] = Arr(Str(s230))
    /\ \E outName \in DOMAIN merges :
          LET m == merges[outName]
          IN  /\ ~HasKey(m.user, "name")
              /\ HasKey(m.system, "name")
              /\ Resolved(outName)["name"] = m.system["name"]

\* C12: a preset written from a truncated preset whose system preset and
\* root template were both found has inherits equal to the root template's
\* name, and at least as many keys as root, system and user have together.
C12_InheritsIsRoot ==
    \A outName \in DOMAIN merges :
        LET m == merges[outName]
        IN  m.rootFound =>
                /\ Resolved(outName)["inherits"] = Str(m.rootName)
                /\ m.rootName # m.baseName =>
                       Resolved(outName)["inherits"] # Str(m.baseName)
                /\ countKeys(Resolved(outName)) >=
                       Cardinality(KeysOf(m.root) \cup KeysOf(m.system)
                                       \cup KeysOf(m.user))

\* C12 witness: a truncated preset that inherits the system preset "Gen" was
\* written with inherits "fdm_filament_petg" and with the keys that only the
\* root template has.
C12_Witness ==
    /\ pc = "fix_done"
    /\ \E outName \in DOMAIN merges :
          LET m == merges[outName]
          IN  /\ m.rootFound
              /\ m.user["inherits"] = Str(sGen)
              /\ m.rootName = sFdmPetg
              /\ Resolved(outName)["inherits"] = Str(sFdmPetg)
              /\ ~HasKey(m.user, "filament_flow_ratio")
              /\ ~HasKey(m.system, "filament_flow_ratio")
              /\ Resolved(outName)["filament_flow_ratio"] = Arr(Str(sOne))
              /\ countKeys(Resolved(outName)) = Cardinality(FixKeys)

\* C13: without --force a file that was in filament/base when the resolver
\* started is never written: it holds its content at every moment of the
\* run and after it.
C13_NoOverwriteWithoutForce ==
    ~force =>
        /\ \A outName \in DOMAIN baseDir0 :
              /\ outName \in DOMAIN baseDir
              /\ baseDir[outName] = baseDir0[outName]
        /\ DOMAIN merges \cap DOMAIN baseDir0 = {}

\* C13 witness: without --force the first preset, which the resolver can
\* expand, met an existing destination and was skipped, while the second
\* preset was expanded into a new file.
C13_Witness ==
    /\ pc = "fix_done"
    /\ ~force
    /\ Len(userDir) = 2
    /\ looksLikeTruncatedUserPreset(userDir[1].file)
    /\ findSystemPresetPathByName(trim(userDir[1].file.preset["inherits"].s))
    /\ systemDir[sGen].json = "object"
    /\ sanitizeFilename(userDir[1].name) \in DOMAIN baseDir0
    /\ baseDir[sanitizeFilename(userDir[1].name)] = OldExpansion
    /\ sanitizeFilename(userDir[2].name) \in DOMAIN merges
    /\ built = 1
    /\ skipped = 1

(***************************************************************************)
(* Properties of the Notes that filterProfiles generates.                  *)
(***************************************************************************)
\* the preset of the directory as filterProfiles sees it, and whether
\* filterProfiles generates its Notes
GenInput == files[1].profile
GenNeeded == ~hasRequiredNotes(GenInput)
GenDone == pc = "opt_start" /\ Len(files) = 1 /\ GenNeeded

\* the members of the Notes of the one preset that was passed on
GenNotes == JsonParse(getNotesString(profiles[1]))

\* the string that is hashed: vendor|type|name
Triple(notes) ==
    JsString(notes.vendor) \o <<124>> \o JsString(notes.type) \o <<124>>
        \o JsString(notes.name)

IsFiveDigits(s) ==
    /\ Len(s) = 5
    /\ s[1] \in 49..57
    /\ \A x \in 2..5 : s[x] \in 48..57

\* C14: the id of generated Notes is a string of five digits without a
\* leading zero, that is a number in 10000..99999, and a second run on the
\* same presets, at a later time, generates the same Notes with the same id.
C14_StableId ==
    /\ GenDone =>
          /\ Len(profiles) = 1
          /\ GenNotes.id.t = "str"
          /\ IsFiveDigits(GenNotes.id.s)
    /\ (GenDone /\ run = 2) =>
          /\ Len(firstProfiles) = 1
          /\ profiles[1].notes = firstProfiles[1].notes

\* C14 witness: in the second run the Notes of the triple Acme|PETG|New were
\* generated with the id 41453, the number FNV-1a gives: |h| % 90000 + 10000.
C14_Witness ==
    /\ GenDone
    /\ run = 2
    /\ Triple(GenNotes) = sAcme \o <<124>> \o sPETG \o <<124>> \o sNew
    /\ GenNotes.id = Str(<<52, 49, 52, 53, 51>>)
    /\ firstProfiles[1].notes = profiles[1].notes

\* the upper-cased <type> of the first <family>_filament_<type> in a name,
\* '' when there is none; the family is "fdm", or any word when anyFamily
sFilamentMarker == <<95, 102, 105, 108, 97, 109, 101, 110, 116, 95>>
sFdm == <<102, 100, 109>>

TypeInName(name, anyFamily) ==
    LET s == toLowerCase(name)
        m == Len(sFilamentMarker)
        word(c) == c \in 97..122 \/ c \in 48..57 \/ c = 95
        family(q) ==
            IF anyFamily
            THEN q > 1 /\ (s[q - 1] \in 97..122 \/ s[q - 1] \in 48..57)
            ELSE q > 3 /\ SubSeq(s, q - 3, q - 1) = sFdm
        starts == {q \in 1..Len(s) :
                      /\ q + m <= Len(s)
                      /\ SubSeq(s, q, q + m - 1) = sFilamentMarker
                      /\ word(s[q + m])
                      /\ family(q)}
        q0 == CHOOSE q \in starts : \A r \in starts : q <= r
        typeEnd == CHOOSE e \in (q0 + m)..Len(s) :
                      /\ \A x \in (q0 + m)..e : word(s[x])
                      /\ e = Len(s) \/ ~word(s[e + 1])
    IN  IF starts = {} THEN sEmpty
        ELSE toUpperCase(SubSeq(s, q0 + m, typeEnd))

\* the field of the preset the Notes are generated from, unwrapped
GenField(key) ==
    LET v == GenInput.f[key] IN IF v.arr THEN [v EXCEPT !.arr = FALSE] ELSE v

\* what C15 says of the generated Notes; a field is present when the preset
\* has a non-empty value for it
NotesSynthesis(anyFamily) ==
    LET present(key) == Truthy(GenField(key))
        inName == TypeInName(IF IsNullish(GenField("inherits")) THEN sEmpty
                             ELSE JsString(GenField("inherits")), anyFamily)
    IN  GenDone =>
            /\ profiles[1].notes.shape = "arr"
            /\ GenNotes.res = "object"
            /\ present("filament_vendor") => GenNotes.vendor = GenField("filament_vendor")
            /\ present("name") => GenNotes.name = GenField("name")
            /\ GenNotes.type =
                   IF present("filament_type") THEN GenField("filament_type")
                   ELSE IF inName # sEmpty THEN Str(inName)
                   ELSE Str(sCUSTOM)
            /\ GenNotes.id = Str(stableFiveDigitId(Triple(GenNotes)))

\* C15 as claimed: vendor, type and name of generated Notes are the preset's
\* fields when it has them; without filament_type the type is the <type> of
\* <family>_filament_<type> in inherits, for any family, upper-cased, and
\* "CUSTOM" without a match; the id is the hash of vendor|type|name and the
\* Notes are written as a one-element array.
C15_NotesSynthesis == NotesSynthesis(TRUE)

\* C15 amended: the pattern is fdm_filament_<type>, the family is always
\* "fdm"; the rest is as claimed.
C15_NotesSynthesisFdm == NotesSynthesis(FALSE)

\* C15 witness: a preset of vendor Acme without Notes and filament_type,
\* inheriting "fdm_filament_petg", got Notes of type "PETG" with the id of
\* "Acme|PETG|New".
C15_Witness ==
    /\ GenDone
    /\ GenInput.notes = NoNotes
    /\ GenInput.f["filament_type"] = Absent
    /\ GenField("inherits") = Str(sFdmPetg)
    /\ GenNotes.vendor = Str(sAcme)
    /\ GenNotes.type = Str(sPETG)
    /\ GenNotes.name = Str(sNew)
    /\ GenNotes.id = Str(stableFiveDigitId(
                            sAcme \o <<124>> \o sPETG \o <<124>> \o sNew))
    /\ profiles[1].notes.shape = "arr"

(***************************************************************************)
(* Properties of sendToPrinter and of the whole run.                       *)
(***************************************************************************)
\* C16: at every moment of a delivery, and after one that failed, each
\* target of remoteDir holds a complete document, the previous one or the
\* new one, or does not exist as before; it never holds a part of one.
C16_AtomicWrite ==
    \A name \in DOMAIN remoteDir : Complete(remoteDir[name])

\* C17: once the baseline loaded has a result.list that is no list, the run
\* has ended with exit code 1, has written no material_database.json and
\* has made no remote operation of the delivery; a run that ends with code
\* 0 has thrown no error, and one that has thrown an error ended with 1.
C17_ShapeIsFatal ==
    /\ (dbFrom # "none" /\ dbObj.shape # "doc") =>
          /\ pc = "exit1"
          /\ err = "db_shape"
          /\ dataDb = NoDoc
          /\ filenames[1] \notin dataFiles
          /\ log = <<>>
          /\ conns = 0
          /\ \A name \in DOMAIN tmp : tmp[name] = NoFile
    /\ pc = "exit0" => err = "none"
    /\ pc = "exit1" <=> err # "none"

\* C17 witness: the printer's document was read, its result.list is no
\* list, material_option.json had been written and the run ended with 1.
C17_Witness ==
    /\ pc = "exit1"
    /\ err = "db_shape"
    /\ dbFrom = "printer"
    /\ printerDb.doc.shape = "nolist"
    /\ filenames[2] \in dataFiles
    /\ dataFiles = {filenames[2]}
    /\ Len(profiles) >= 1

\* C18: at most one connection is open at any moment; none is open where
\* the run is about to open one, between the remote steps, and when the
\* run has ended, with code 0 or after any failure.
C18_OneConnection ==
    /\ conns \in {0, 1}
    /\ conns = 1 <=>
          pc \in {"opt_read", "db_read", "send_mkdir", "send_backup",
                  "send_upload", "send_write", "send_verify"}
    /\ pc \in {"opt_start", "opt_done", "db_done", "exit0", "exit1"} => conns = 0

\* C18 witness: the read of the options failed, the read of the database
\* succeeded, the delivery connected and failed while writing; the run
\* ended with no connection open.
C18_Witness ==
    /\ pc = "exit1"
    /\ err = "write"
    /\ optRemote = "read_failed"
    /\ dbRemote = "ok"
    /\ Len(log) >= 3
    /\ conns = 0

\* the places of the remote operations op in the log
LogPlaces(op) == {a \in 1..Len(log) : log[a].op = op}

\* C19: the first remote step of a delivery is the connect; every backup
\* read comes before the first write; with backups enabled each of the two
\* files has been read once when the uploads start, whether or not the
\* reads succeeded, and a backup step never ends the delivery; with
\* backups disabled no read is made and nothing is saved.
C19_DeliveryOrder ==
    /\ [](/\ log # <<>> => LogPlaces("connect") = {1}
          /\ \A a \in LogPlaces("read"), b \in LogPlaces("write") : a < b
          /\ backups \subseteq {log[a].name : a \in LogPlaces("read")}
          /\ (doBackup /\ pc \in {"send_upload", "send_write", "send_verify", "exit0"}) =>
                [a \in 1..2 |-> log[2 + a]] =
                    [a \in 1..2 |-> LogOp("read", filenames[a])]
          /\ ~doBackup => LogPlaces("read") = {} /\ backups = {})
    /\ [][pc = "send_backup" =>
             /\ pc' \in {"send_backup", "send_upload"}
             /\ conns' = conns
             /\ err' = err]_vars

\* C19 witness: with backups enabled the printer had only the database; its
\* backup was saved, the read of the options failed and was skipped, and
\* both files were then written and the delivery ended with code 0.
C19_Witness ==
    /\ pc = "exit0"
    /\ doBackup
    /\ backups = {filenames[1]}
    /\ [a \in 1..Len(log) |-> log[a].op] =
          <<"connect", "mkdir", "read", "read", "write", "verify", "write", "verify">>
    /\ remoteDir = [name \in {filenames[1], filenames[2]} |-> FileOf("new")]

\* C20: when one of the two files is missing in data/ as the delivery runs,
\* the run does not end with code 0 and no remote document is written.
C20_LocalFilesRequired ==
    (pc # "db_done" /\ dataFiles # {filenames[1], filenames[2]}) =>
        /\ pc # "exit0"
        /\ LogPlaces("write") = {}
        /\ \A name \in DOMAIN remoteDir :
              /\ remoteDir[name].doc # "new"
              /\ tmp[name] = NoFile

\* the places of the run inside addToOptions, inside addToDatabase (from
\* its call on) and inside sendToPrinter once it is connected
OptPhase == {"opt_start", "opt_read", "opt_loop"}
DbPhase == {"opt_done", "db_read", "db_loop"}
SendPhase == {"send_mkdir", "send_backup", "send_upload", "send_write",
              "send_verify"}

\* no remote operation of the delivery has been made
NothingDelivered ==
    /\ log = <<>>
    /\ backups = {}
    /\ \A name \in DOMAIN tmp : tmp[name] = NoFile

\* C21: addToDatabase is not entered before addToOptions has written its
\* file, and sendToPrinter is not called, no delivery connection is opened
\* and no remote file is touched before both files have been written
\* without an error, the options first and the database second; once a
\* build step has thrown, the run has ended with code 1, no connection is
\* open, and nothing of the delivery has happened or happens afterwards.
C21_DeliveryAfterBuilds ==
    /\ [](/\ pc \in {"init"} \cup OptPhase =>
                /\ dataFiles = {}
                /\ dbFrom = "none"
                /\ NothingDelivered
          /\ pc \in DbPhase =>
                /\ dataFiles = {filenames[2]}
                /\ optFrom # "none"
                /\ NothingDelivered
          /\ (pc \in {"db_done", "exit0"} \cup SendPhase \/ ~NothingDelivered) =>
                /\ dataFiles = {filenames[1], filenames[2]}
                /\ optFrom # "none"
                /\ dbFrom # "none"
                /\ dbObj.shape = "doc"
                /\ err \notin BuildErrors
          /\ pc = "db_done" => err = "none" /\ NothingDelivered /\ conns = 0
          /\ err \in BuildErrors =>
                /\ pc = "exit1"
                /\ conns = 0
                /\ filenames[1] \notin dataFiles
                /\ NothingDelivered)
    /\ [][/\ dataFiles' # dataFiles =>
                \/ /\ pc = "opt_loop" /\ pc' = "opt_done"
                   /\ dataFiles = {} /\ dataFiles' = {filenames[2]}
                \/ /\ pc = "db_loop" /\ pc' = "db_done"
                   /\ dataFiles = {filenames[2]}
                   /\ dataFiles' = {filenames[1], filenames[2]}
          /\ (log' # log \/ backups' # backups \/ tmp' # tmp
                \/ remoteDir' # remoteDir) =>
                /\ pc \in {"db_done"} \cup SendPhase
                /\ err = "none"
                /\ dataFiles = {filenames[1], filenames[2]}
          /\ pc \in {"db_done"} \cup SendPhase =>
                UNCHANGED <<dataFiles, dataOpt, dataDb, obj, dbObj>>
          /\ err \in BuildErrors => UNCHANGED vars]_vars

\* C21 witness: the options were read from the printer, the database came
\* from the snapshot after a failed read, both files were written, and the
\* delivery then connected, wrote both documents and ended with code 0.
C21_Witness ==
    /\ pc = "exit0"
    /\ optFrom = "printer"
    /\ dbRemote = "read_failed"
    /\ Len(profiles) >= 1
    /\ dataFiles = {filenames[1], filenames[2]}
    /\ LogPlaces("connect") = {1}
    /\ {log[a].name : a \in LogPlaces("write")} = {filenames[1], filenames[2]}
    /\ remoteDir = [name \in {filenames[1], filenames[2]} |-> FileOf("new")]

\* addToOptions threw while writing its file: the database was never
\* loaded and nothing was delivered
OptionsThrew ==
    /\ pc = "exit1"
    /\ err = "data_write"
    /\ optFrom = "printer"
    /\ dbFrom = "none"
    /\ dataFiles = {}
    /\ NothingDelivered

\* addToDatabase threw after addToOptions had written its file: nothing was
\* delivered
DatabaseThrew ==
    /\ pc = "exit1"
    /\ err \in BuildErrors
    /\ dbFrom # "none"
    /\ dataFiles = {filenames[2]}
    /\ NothingDelivered

====
